---- MODULE Spec2Model ----
(***************************************************************************)
(* Model of the Android Agent S2 control loop:                             *)
(*   AndroidAgentS2.predict / reset / reset_executor_state                 *)
(*   AndroidAgentS2.update_narrative_memory / update_episodic_memory       *)
(*   AndroidWorker.generate_next_action (parse and return of the action)   *)
(*   AndroidVerifierAgent._parse_verification_response                     *)
(* The Planner, the oracle behind the Executor and the Verifier, and the   *)
(* environment are external: their answers are drawn from small sets.      *)
(***************************************************************************)
EXTENDS Integers, Sequences, FiniteSets

\* ------------------------------------------------------------------ bounds
MaxPlan == 2        \* longest plan the Planner returns
MaxCompleted == 2   \* no new Executor call once completed_tasks is this long
MaxSteps == 2       \* no new predict call once step_count is this large
MaxTrajectory == 3  \* no plan is appended to a trajectory buffer of this many parts
MaxElements == 2    \* most UI elements on a screen
MaxStreak == 3      \* failed iterations in a row are counted up to this many
MaxTurns == 10      \* no generate_next_action call once turn_count is this large
MaxVaried == 4      \* turns of a subtask over which the oracle's plan text varies
MaxPrompts == 4     \* no verify_execution call once the Verifier's engine holds this many prompts

\* ------------------------------------------------------------------ domains
None == "None"
Subtasks == {"A", "B"}
Queries == {"", "q"}            \* planner_info["search_query"], or "" when absent
Summaries == {"sumA", "sumB"}   \* what summarize_narrative / summarize_episode return
ExecutorPlans == {"p1", "p2"}   \* meta_data["executor_plan"]

\* Plans without duplicates, of length 0..MaxPlan (the Planner emits a DAG order).
RECURSIVE SeqsUpTo(_, _)
SeqsUpTo(S, n) ==
    IF n = 0 THEN {<<>>}
    ELSE LET shorter == SeqsUpTo(S, n - 1)
         IN shorter \cup {Append(q, x) : q \in {r \in shorter : Len(r) = n - 1}, x \in S}

Min(a, b) == IF a < b THEN a ELSE b

NoDup(q) == \A i, j \in 1..Len(q) : i # j => q[i] # q[j]

PlannerOutputs == {q \in SeqsUpTo(Subtasks, MaxPlan) : NoDup(q)}

\* ------------------------------------------------------------------ actions as text
\* An action is modelled by the token sequence of str(action); "X in str(action)"
\* is token membership.
Contains(tok, s) == \E i \in 1..Len(s) : s[i] = tok

ClickAction == <<"{", "action_type", "click", "index", "}">>
StatusComplete == <<"{", "action_type", "status", "goal_status", "complete", "}">>
StatusInfeasible == <<"{", "action_type", "status", "goal_status", "infeasible", "}">>
AnswerDone == <<"{", "action_type", "answer", "text", "DONE", "}">>
TypeFail == <<"{", "action_type", "input_text", "text", "FAIL", "}">>
TypeFailDone == <<"{", "action_type", "input_text", "text", "FAIL", "DONE", "}">>
EmptyDict == <<"{", "}">>

DictActions == {ClickAction, StatusComplete, StatusInfeasible, AnswerDone, TypeFail, TypeFailDone}

ParsePlanFail == <<"FAIL", ":", "Could", "not", "parse", "plan", "output">>
ParseJsonFail == <<"FAIL", ":", "Could", "not", "parse", "JSON", "action">>
ExecuteFail == <<"FAIL", ":", "Error", "executing", "action">>
ExecuteSuccess == <<"SUCCESS", ":", "Action", "executed", "successfully">>
WaitResult == <<"SUCCESS", ":", "Waited", "seconds">>
DoneAction == <<"DONE">>

\* ------------------------------------------------------------------ Executor (AndroidWorker)
\* The oracle's reply to the Executor, by what the parsing code can distinguish:
\*   reason : whether "Reason:(.*)Action:" matches with non-empty text
\*   kind   : "absent"     no "Action:" part (or an empty one)
\*            "text"       an action text from which no dict can be extracted
\*            "unhashable" a braced text on which ast.literal_eval raises TypeError
\*            "json"       a braced text that evaluates to the dict `dict`
ActionTexts ==
    {[kind |-> k, dict |-> <<>>] : k \in {"absent", "text", "unhashable"}}
        \cup {[kind |-> "json", dict |-> d] : d \in DictActions \cup {EmptyDict}}

WorkerReplies == [reason : BOOLEAN, action : ActionTexts]

\* env.execute_action(converted_action): returns None, or raises.
EnvOutcomes == {"none", "raises"}

\* extract_json: None, a dict, or an exception that is neither SyntaxError nor ValueError.
extract_json(a) ==
    CASE a.kind = "json" -> [status |-> "dict", dict |-> a.dict]
      [] a.kind = "unhashable" -> [status |-> "raise", dict |-> <<>>]
      [] OTHER -> [status |-> "none", dict |-> <<>>]

\* parse_reason_action_output: (reason, action), or the exception of extract_json.
\* A dict that was extracted is re-serialised with json.dumps, from which
\* extract_json gives the same dict again.
parse_reason_action_output(reply) ==
    IF reply.action.kind = "absent"
    THEN [raised |-> FALSE, reason |-> reply.reason, action |-> reply.action]
    ELSE IF extract_json(reply.action).status = "raise"
         THEN [raised |-> TRUE, reason |-> FALSE, action |-> reply.action]
         ELSE [raised |-> FALSE, reason |-> reply.reason, action |-> reply.action]

Truthy(d) == Len(d) > 2    \* a dict is truthy when it has at least one key

\* exec_code after the parse-and-execute block (lines 496-583).
exec_code_of(parsed, env) ==
    IF parsed.raised THEN WaitResult
    ELSE IF parsed.reason /\ parsed.action.kind # "absent"
         THEN LET ex == extract_json(parsed.action)
              IN IF ex.status = "dict" /\ Truthy(ex.dict)
                 THEN IF env = "none" THEN ExecuteSuccess ELSE ExecuteFail
                 ELSE ParseJsonFail
         ELSE ParsePlanFail

\* The return statement (lines 600-611). When the parse raised, `reason` was never
\* bound and evaluating it raises UnboundLocalError out of generate_next_action.
returned_actions(parsed, exec_code) ==
    IF parsed.reason /\ parsed.action.kind # "absent"
    THEN LET ex == extract_json(parsed.action)
         IN IF ex.status = "dict" /\ Truthy(ex.dict) THEN <<ex.dict>> ELSE <<exec_code>>
    ELSE <<exec_code>>

generate_next_action(reply, env) ==
    LET parsed == parse_reason_action_output(reply)
        code == exec_code_of(parsed, env)
    IN [raised |-> parsed.raised,
        exec_code |-> code,
        actions |-> IF parsed.raised THEN <<>> ELSE returned_actions(parsed, code)]

\* ------------------------------------------------------------------ Actuator (AndroidACI)
\* click_by_index, long_click_by_index and type_by_index (lines 458-507) share one
\* body; they differ in the action built and in the words of the result.
IndexOps == {"click_by_index", "long_click_by_index", "type_by_index"}
Indices == (0 - 1)..(MaxElements + 1)
ElementCounts == 0..MaxElements
\* The environment: answers both calls, or raises in get_state, or in execute_action.
ActuatorEnvs == {"ok", "get_state_raises", "execute_action_raises"}

SuccessWord(op) ==
    CASE op = "click_by_index" -> "Clicked"
      [] op = "long_click_by_index" -> "Long clicked"
      [] OTHER -> "Typed"

ErrorWord(op) ==
    CASE op = "click_by_index" -> "clicking"
      [] op = "long_click_by_index" -> "long clicking"
      [] OTHER -> "typing"

\* Mutant of index_out_of_range: the upper test is off by one.
index_out_of_range_gt(index, n) == index < 0 \/ index > n

\* if index < 0 or index >= len(ui_elements)
index_out_of_range(index, n) == index < 0 \/ index >= n

\* The result text, the number of env.execute_action calls made, and whether an
\* exception left the function.
by_index(op, index, n, env) ==
    IF env = "get_state_raises"
    THEN [result |-> <<"FAIL", ":", "Error", ErrorWord(op), "element at index", index>>,
          executed |-> 0, raised |-> FALSE]
    ELSE IF index_out_of_range(index, n)
    THEN [result |-> <<"FAIL", ":", "Index", index, "out of range", n - 1>>,
          executed |-> 0, raised |-> FALSE]
    ELSE IF env = "execute_action_raises"
    THEN [result |-> <<"FAIL", ":", "Error", ErrorWord(op), "element at index", index>>,
          executed |-> 1, raised |-> FALSE]
    ELSE [result |-> <<"SUCCESS", ":", SuccessWord(op), "element at index", index>>,
          executed |-> 1, raised |-> FALSE]

\* AndroidACI.scroll (lines 90-111).
\*   described : an element_description was given
\*   found     : _find_element_by_description returned an index (element_index)
Directions == {"up", "down", "left", "right"}

scroll(direction, described, found, element_index, env) ==
    IF described
    THEN IF env = "get_state_raises"
         THEN [result |-> <<"FAIL", ":", "Error scrolling", direction>>,
               executed |-> 0, raised |-> FALSE]
         ELSE IF ~found
         THEN [result |-> <<"FAIL", ":", "Could not find element">>,
               executed |-> 0, raised |-> FALSE]
         ELSE [result |-> <<"SUCCESS", ":", "Scrolled", direction, "on element", element_index>>,
               executed |-> 0, raised |-> FALSE]
    ELSE IF env = "execute_action_raises"
         THEN [result |-> <<"FAIL", ":", "Error scrolling", direction>>,
               executed |-> 1, raised |-> FALSE]
         ELSE [result |-> <<"SUCCESS", ":", "Scrolled", direction, "on screen">>,
               executed |-> 1, raised |-> FALSE]

NoCall == [at |-> "idle", op |-> "none", index |-> 0, n |-> 0, env |-> "ok",
           result |-> <<>>, executed |-> 0, raised |-> FALSE]

\* ------------------------------------------------------------------ Verifier
\* The verdict text as the sequence of its fragments, in the case the oracle wrote
\* them; a marker is in the text when one of the fragments is the marker.
PassMark == "VERIFICATION_RESULT: PASS"
FailMark == "VERIFICATION_RESULT: FAIL"
VerifierReplies ==
    {<<PassMark>>, <<FailMark>>, <<FailMark, PassMark>>, <<"UNCLEAR">>, <<>>,
     <<"verification_result: pass">>, <<"Verification_Result: Fail">>,
     <<"Verification_Result: Fail", "REASONING: ...">>,
     <<"VERIFICATION_RESULT:FAIL">>}

\* str.upper() on one fragment.
upper_fragment(t) ==
    CASE t = "verification_result: pass" -> PassMark
      [] t = "Verification_Result: Fail" -> FailMark
      [] OTHER -> t

\* response.upper()
upper(response) == [i \in 1..Len(response) |-> upper_fragment(response[i])]

\* Mutant of parse_verification_response: the FAIL marker is looked for first.
parse_verification_response_fail_first(response) ==
    IF Contains(FailMark, upper(response)) THEN FALSE
    ELSE IF Contains(PassMark, upper(response)) THEN TRUE
    ELSE TRUE

parse_verification_response(response) ==
    IF Contains(PassMark, upper(response)) THEN TRUE
    ELSE IF Contains(FailMark, upper(response)) THEN FALSE
    ELSE TRUE

\* ------------------------------------------------------------------ outcome classification
has_failure_marker(acts) == \E i \in 1..Len(acts) : Contains("FAIL", acts[i])

\* Mutant of has_completion_marker: the test for "complete" is dropped, so that a
\* status action reporting "infeasible" is read as a completion.
has_completion_marker_any(acts) ==
    \/ \E i \in 1..Len(acts) : Contains("DONE", acts[i])
    \/ \E i \in 1..Len(acts) : Contains("goal_status", acts[i])

has_completion_marker(acts) ==
    \/ \E i \in 1..Len(acts) : Contains("DONE", acts[i])
    \/ \E i \in 1..Len(acts) : Contains("goal_status", acts[i]) /\ Contains("complete", acts[i])

\* ------------------------------------------------------------------ oracle conversations
\* LMMAgent: the list of messages sent to the oracle on each call. A message is
\* modelled by <<role, turn>>, the turn in which it was added.
SystemMessage == <<"system", 0>>

\* LMMAgent(engine_params) and BaseModule._create_agent(system_prompt).
create_agent == <<SystemMessage>>

\* add_system_prompt: the first message is replaced (or added to an empty list).
add_system_prompt(messages) ==
    IF messages = <<>> THEN <<SystemMessage>> ELSE [messages EXCEPT ![1] = SystemMessage]

add_message(messages, role, turn) == Append(messages, <<role, turn>>)

\* remove_message_at(index), index counted from 0: nothing when out of range.
remove_message_at(messages, index) ==
    IF index + 1 <= Len(messages)
    THEN [j \in 1..(Len(messages) - 1) |-> IF j <= index THEN messages[j] ELSE messages[j + 1]]
    ELSE messages

\* ------------------------------------------------------------------ Executor (AndroidWorker): context
max_trajector_length == 8

PlanTexts == {"swipe", "click", "back"}     \* what call_llm_safe(generator_agent) returns
Activities == {"Launcher", "Settings"}
ScreenElements == {<<>>, <<"Wi-Fi">>, <<"Bluetooth">>, <<"Wi-Fi", "Bluetooth">>}
\* An observation: obs['current_activity'] and the texts of obs['ui_elements'].
Observations == [current_activity : Activities, ui_elements : ScreenElements]

NoOutput == [called |-> FALSE, screen_changed |-> FALSE, paused |-> FALSE,
             device_changed |-> FALSE, hint |-> FALSE]

\* AndroidWorker.__init__ and the reset() it ends with. _previous_activity and
\* _previous_ui_elements do not exist yet: getattr gives None and [].
AndroidWorker(enable_reflection) ==
    [enable_reflection |-> enable_reflection,
     generator |-> create_agent,
     reflection |-> create_agent,
     turn_count |-> 0,
     planner_history |-> <<>>,
     previous_activity |-> None,
     previous_ui_elements |-> <<>>,
     out |-> NoOutput]      \* what the last call reported (not program state)

\* reset() (lines 56-83): new conversations, turn_count and planner_history cleared.
worker_reset(w) ==
    [w EXCEPT !.generator = create_agent, !.reflection = create_agent,
              !.turn_count = 0, !.planner_history = <<>>, !.out = NoOutput]

\* Mutant of flush_messages: one generator message is evicted, not a turn.
flush_messages_one(w) ==
    [w EXCEPT !.generator = IF Len(@) > 2 * max_trajector_length + 1
                            THEN remove_message_at(@, 1)
                            ELSE @,
              !.reflection = IF Len(@) > max_trajector_length + 1
                             THEN remove_message_at(@, 1)
                             ELSE @]

\* flush_messages (lines 191-198).
flush_messages(w) ==
    [w EXCEPT !.generator = IF Len(@) > 2 * max_trajector_length + 1
                            THEN remove_message_at(remove_message_at(@, 1), 1)
                            ELSE @,
              !.reflection = IF Len(@) > max_trajector_length + 1
                             THEN remove_message_at(@, 1)
                             ELSE @]

\* elements[:3]
FirstThree(elements) == SubSeq(elements, 1, Min(3, Len(elements)))

\* Detect screen changes (lines 226-239), against the state stored by the last call.
detect_screen_change(w, obs) ==
    IF w.previous_activity # None /\ w.previous_activity # obs.current_activity
    THEN TRUE
    ELSE IF Len(obs.ui_elements) # Len(w.previous_ui_elements)
         THEN TRUE
         ELSE /\ w.turn_count > 0
              /\ Len(w.previous_ui_elements) > 0
              /\ Len(obs.ui_elements) > 0
              /\ FirstThree(w.previous_ui_elements) # FirstThree(obs.ui_elements)

\* The stability check is entered (line 246): time.sleep(2.0) follows.
stability_pause(w, obs) == w.turn_count > 0 /\ ~detect_screen_change(w, obs)

\* After the pause (lines 252-253): new_activity and new_ui_elements are read from
\* obs, the argument of the call; the screen the device shows by then is not read.
resampled_observation(obs, device) == obs

\* screen_changed as reported in executor_info (lines 225-261).
screen_changed_of(w, obs, device) ==
    IF stability_pause(w, obs)
    THEN LET new == resampled_observation(obs, device)
         IN \/ new.current_activity # obs.current_activity
            \/ Len(new.ui_elements) # Len(obs.ui_elements)
    ELSE detect_screen_change(w, obs)

\* Mutant of recent_actions: the whole history is looked at.
recent_actions_all(planner_history) == planner_history

\* recent_actions (line 434).
recent_actions(planner_history) ==
    IF Len(planner_history) >= 3
    THEN SubSeq(planner_history, Len(planner_history) - 2, Len(planner_history))
    ELSE planner_history

\* repeated_actions (line 435): len(set(recent_actions)) < len(recent_actions).
repeated_actions(planner_history) ==
    LET recent == recent_actions(planner_history)
    IN Cardinality({recent[i] : i \in 1..Len(recent)}) < Len(recent)

\* The WARNING text is added to the generator message (lines 433-436).
repetition_hint(w) == w.turn_count > 0 /\ repeated_actions(w.planner_history)

\* generate_next_action (lines 200-611), the part that keeps the Executor's
\* context: change detection, the two conversations, the plan history.
\*   obs    : the observation the call is given
\*   device : what the device shows after the pause
\*   plan   : the oracle's reply
generate_next_action_context(w, obs, device, plan) ==
    LET changed == screen_changed_of(w, obs, device)
        paused == stability_pause(w, obs)
        t == w.turn_count
        gen0 == IF t = 0 THEN add_system_prompt(w.generator) ELSE w.generator
        refl == IF w.enable_reflection
                THEN IF t = 0
                     THEN add_message(add_system_prompt(w.reflection), "user", t)
                     ELSE add_message(w.reflection, "user", t)
                ELSE w.reflection
        gen == add_message(add_message(gen0, "user", t), "assistant", t)
    IN flush_messages(
           [w EXCEPT !.previous_activity = obs.current_activity,
                     !.previous_ui_elements = obs.ui_elements,
                     !.generator = gen,
                     !.reflection = refl,
                     !.planner_history = Append(@, plan),
                     !.turn_count = @ + 1,
                     !.out = [called |-> TRUE,
                              screen_changed |-> changed,
                              paused |-> paused,
                              device_changed |-> paused /\ device # obs,
                              hint |-> repetition_hint(w)]])

\* ------------------------------------------------------------------ Verifier (AndroidVerifierAgent): state
\* __init__ (lines 14-22): the engine is created once; reset() follows.
AndroidVerifierAgent ==
    [verifier_engine |-> create_agent,
     verification_history |-> <<>>,
     out |-> [called |-> FALSE, is_success |-> FALSE, earlier_prompts |-> 0]]

\* Mutant of verifier_reset: the history survives the reset.
verifier_reset_keeps(v) == v

\* reset() (lines 24-26): only the history is emptied.
verifier_reset(v) == [v EXCEPT !.verification_history = <<>>]

\* verify_execution (lines 28-74): the prompt is added to the engine's
\* conversation, the oracle answers on the whole conversation, the parsed verdict
\* is logged and returned.
verify_execution(v, response) ==
    LET is_success == parse_verification_response(response)
    IN [v EXCEPT !.verifier_engine = add_message(@, "user", Len(@)),
                 !.verification_history =
                     Append(@, [verification_response |-> response,
                                is_success |-> is_success]),
                 !.out = [called |-> TRUE, is_success |-> is_success,
                          earlier_prompts |-> Len(v.verifier_engine) - 1]]

\* ------------------------------------------------------------------ state
VARIABLES
    \* AndroidAgentS2 (reset, lines 201-212)
    requires_replan, needs_next_subtask, step_count, failure_subtask,
    should_send_action, completed_tasks, current_subtask, subtasks,
    search_query, subtask_status,
    \* predict: position in the call and its locals
    pc, actions, exec_code,
    \* the journals on disk and the caller's trajectory buffer
    kb_dir, narrative_file, episodic_file, subtask_trajectory,
    \* the journal update each of two concurrent episodes is in the middle of
    episodes,
    \* the Actuator call in progress
    ground,
    \* the Executor object (AndroidWorker) and the Verifier object
    worker, verifier,
    \* history of the run (not program state)
    hist

agentVars == <<requires_replan, needs_next_subtask, step_count, failure_subtask,
               should_send_action, completed_tasks, current_subtask, subtasks,
               search_query, subtask_status>>
callVars == <<pc, actions, exec_code>>
\* Everything outside the predict call.
memVars == <<kb_dir, narrative_file, episodic_file, subtask_trajectory, episodes, ground,
            worker, verifier>>
vars == <<agentVars, callVars, memVars, hist>>

\* The agent's fields as one record, so that each block of predict is an operator
\* from the fields before it to the fields after it.
Self ==
    [requires_replan |-> requires_replan, needs_next_subtask |-> needs_next_subtask,
     step_count |-> step_count, failure_subtask |-> failure_subtask,
     should_send_action |-> should_send_action, completed_tasks |-> completed_tasks,
     current_subtask |-> current_subtask, subtasks |-> subtasks,
     search_query |-> search_query, subtask_status |-> subtask_status]

Assign(s) ==
    /\ requires_replan' = s.requires_replan
    /\ needs_next_subtask' = s.needs_next_subtask
    /\ step_count' = s.step_count
    /\ failure_subtask' = s.failure_subtask
    /\ should_send_action' = s.should_send_action
    /\ completed_tasks' = s.completed_tasks
    /\ current_subtask' = s.current_subtask
    /\ subtasks' = s.subtasks
    /\ search_query' = s.search_query
    /\ subtask_status' = s.subtask_status

\* reset_executor_state: executor.reset(), verifier.reset(), step_count = 0.
reset_executor_state(s) == [s EXCEPT !.step_count = 0]

\* The arguments of planner.get_action_queue (lines 247-253) that come from the
\* agent's fields.
planner_args(s) ==
    [failed_subtask |-> s.failure_subtask,
     completed_subtasks_list |-> s.completed_tasks,
     remaining_subtasks_list |-> s.subtasks]

\* Mutant of replan: the returned plan is appended to the old queue.
replan_extends(s, plan, query) ==
    [s EXCEPT !.subtasks = s.subtasks \o plan, !.requires_replan = FALSE,
              !.search_query = query]

\* Replan (lines 245-259): the queue is replaced by the Planner's sequence.
replan(s, plan, query) ==
    [s EXCEPT !.subtasks = plan, !.requires_replan = FALSE, !.search_query = query]

\* Mutants of queue_is_empty: an off-by-one in either direction.
queue_is_empty_le1(q) == Len(q) <= 1

queue_is_empty_lt0(q) == Len(q) < 0

\* len(self.subtasks) <= 0 (line 266)
queue_is_empty(q) == Len(q) <= 0

\* Advance on an empty queue (lines 267-276).
advance_done(s) ==
    LET t == [s EXCEPT !.requires_replan = TRUE,
                       !.needs_next_subtask = TRUE,
                       !.failure_subtask = None,
                       !.completed_tasks =
                           IF s.current_subtask # None
                           THEN Append(s.completed_tasks, s.current_subtask)
                           ELSE s.completed_tasks]
    IN [reset_executor_state(t) EXCEPT !.should_send_action = TRUE,
                                       !.subtask_status = "Done"]

\* Mutant of advance_pop: pop() instead of pop(0).
advance_pop_last(s) ==
    [s EXCEPT !.current_subtask = s.subtasks[Len(s.subtasks)],
              !.subtasks = SubSeq(s.subtasks, 1, Len(s.subtasks) - 1),
              !.needs_next_subtask = FALSE,
              !.subtask_status = "Start"]

\* Mutant of advance_pop: the head is read but not removed from the queue.
advance_pop_keep(s) ==
    [s EXCEPT !.current_subtask = Head(s.subtasks),
              !.needs_next_subtask = FALSE,
              !.subtask_status = "Start"]

\* Advance on a non-empty queue (lines 285-288): self.subtasks.pop(0).
advance_pop(s) ==
    [s EXCEPT !.current_subtask = Head(s.subtasks),
              !.subtasks = Tail(s.subtasks),
              !.needs_next_subtask = FALSE,
              !.subtask_status = "Start"]

\* Mutant of verdict_failure: the next subtask is asked for without a replan.
verdict_failure_no_replan(s) ==
    LET t == [s EXCEPT !.needs_next_subtask = TRUE,
                       !.failure_subtask = s.current_subtask]
    IN [reset_executor_state(t) EXCEPT
            !.should_send_action = IF s.subtasks # <<>> THEN FALSE ELSE @]

\* Failed verdict (lines 324-331).
verdict_failure(s) ==
    LET t == [s EXCEPT !.requires_replan = TRUE,
                       !.needs_next_subtask = TRUE,
                       !.failure_subtask = s.current_subtask]
    IN [reset_executor_state(t) EXCEPT
            !.should_send_action = IF s.subtasks # <<>> THEN FALSE ELSE @]

\* Mutant of marker_failure: a failure on a subtask that had already failed is
\* retried in place, without a replan.
marker_failure_retries(s) ==
    IF s.failure_subtask = s.current_subtask
    THEN reset_executor_state(s)
    ELSE LET t == [s EXCEPT !.requires_replan = TRUE,
                            !.needs_next_subtask = TRUE,
                            !.failure_subtask = s.current_subtask]
         IN [reset_executor_state(t) EXCEPT
                 !.should_send_action = IF s.subtasks # <<>> THEN FALSE ELSE @]

\* Mutant of marker_failure: the failed subtask is also recorded as completed.
marker_failure_appends(s) ==
    LET t == [s EXCEPT !.requires_replan = TRUE,
                       !.needs_next_subtask = TRUE,
                       !.failure_subtask = s.current_subtask,
                       !.completed_tasks = Append(s.completed_tasks, s.current_subtask)]
    IN [reset_executor_state(t) EXCEPT
            !.should_send_action = IF s.subtasks # <<>> THEN FALSE ELSE @]

\* Mutant of marker_failure: the action is sent although subtasks remain.
marker_failure_sends(s) ==
    LET t == [s EXCEPT !.requires_replan = TRUE,
                       !.needs_next_subtask = TRUE,
                       !.failure_subtask = s.current_subtask]
    IN reset_executor_state(t)

\* Failure marker in the action (lines 337-349).
marker_failure(s) ==
    LET t == [s EXCEPT !.requires_replan = TRUE,
                       !.needs_next_subtask = TRUE,
                       !.failure_subtask = s.current_subtask]
    IN [reset_executor_state(t) EXCEPT
            !.should_send_action = IF s.subtasks # <<>> THEN FALSE ELSE @]

\* Mutant of completion: the completed subtask is no longer current.
completion_clears_current(s) ==
    LET t == [s EXCEPT !.requires_replan = TRUE,
                       !.needs_next_subtask = TRUE,
                       !.failure_subtask = None,
                       !.completed_tasks = Append(s.completed_tasks, s.current_subtask),
                       !.current_subtask = None]
    IN [reset_executor_state(t) EXCEPT
            !.should_send_action = IF s.subtasks # <<>> THEN FALSE ELSE @,
            !.subtask_status = "Done"]

\* Mutant of completion: the action is sent although subtasks remain.
completion_sends(s) ==
    LET t == [s EXCEPT !.requires_replan = TRUE,
                       !.needs_next_subtask = TRUE,
                       !.failure_subtask = None,
                       !.completed_tasks = Append(s.completed_tasks, s.current_subtask)]
    IN [reset_executor_state(t) EXCEPT !.subtask_status = "Done"]

\* Mutant of completion: the list is rebuilt instead of appended to.
completion_replaces(s) ==
    LET t == [s EXCEPT !.requires_replan = TRUE,
                       !.needs_next_subtask = TRUE,
                       !.failure_subtask = None,
                       !.completed_tasks = <<s.current_subtask>>]
    IN [reset_executor_state(t) EXCEPT
            !.should_send_action = IF s.subtasks # <<>> THEN FALSE ELSE @,
            !.subtask_status = "Done"]

\* Completion marker in the action (lines 352-364).
completion(s) ==
    LET t == [s EXCEPT !.requires_replan = TRUE,
                       !.needs_next_subtask = TRUE,
                       !.failure_subtask = None,
                       !.completed_tasks = Append(s.completed_tasks, s.current_subtask)]
    IN [reset_executor_state(t) EXCEPT
            !.should_send_action = IF s.subtasks # <<>> THEN FALSE ELSE @,
            !.subtask_status = "Done"]

\* Mutant of classify: the completion marker is tested first.
classify_completion_first(s, acts) ==
    LET t == [s EXCEPT !.should_send_action = TRUE]
    IN IF has_completion_marker(acts) THEN completion(t)
       ELSE IF has_failure_marker(acts) THEN marker_failure(t)
       ELSE t

\* Lines 333-364: the flag is set, then the action is classified.
classify(s, acts) ==
    LET t == [s EXCEPT !.should_send_action = TRUE]
    IN IF has_failure_marker(acts) THEN marker_failure(t)
       ELSE IF has_completion_marker(acts) THEN completion(t)
       ELSE t

\* ------------------------------------------------------------------ memory journals
\* A journal file: absent, or a JSON object, held as a set of <<key, summary>> pairs.
\* A text is the sequence of its parts between plan separators
\* ("\n----------------------\n\nPlan:\n"), each part a sequence of tokens.
NoFile == [exists |-> FALSE, data |-> {}]
EmptyText == << <<>> >>
SubtaskInfo == "info"
Statuses == {"Start", "In", "Done"}
MetaSubtasks == {"A"}           \* meta_data["subtask"]
MetaData ==
    [subtask : MetaSubtasks, subtask_info : {SubtaskInfo}, subtask_status : Statuses,
     executor_plan : ExecutorPlans]

HasKey(d, k) == \E e \in d : e[1] = k
Lookup(d, k) == (CHOOSE e \in d : e[1] = k)[2]

\* json.load(open(path)) inside try/except: the stored object, or {} when the
\* file is absent or the load fails for any other reason (`loads` false).
load_journal(file, loads) == IF file.exists /\ loads THEN file.data ELSE {}

\* Mutant of merge_entry: the entry is assigned without the membership test.
merge_entry_overwrite(d, k, summary) == {e \in d : e[1] # k} \cup {<<k, summary>>}

\* if key not in journal: journal[key] = summary (lines 408-410, 446-450).
merge_entry(d, k, summary) == IF HasKey(d, k) THEN d ELSE d \cup {<<k, summary>>}

\* open(path, "w") and json.dump: needs the directory <local_kb_path>/android.
dump_journal(dir, d) == [exists |-> TRUE, data |-> d]

\* update_narrative_memory (lines 399-416): an exception is logged, not raised.
update_narrative_memory(file, loads, dir, query, summary) ==
    LET reflections == merge_entry(load_journal(file, loads), <<query>>, summary)
    IN IF dir THEN dump_journal(dir, reflections) ELSE file

\* subtask_trajectory += "\nAndroid Subtask Completed.\n"
completed_text(text) == [text EXCEPT ![Len(text)] = Append(@, "Android Subtask Completed.")]

\* subtask_trajectory.split(separator)[0]
subtask_key_of(text) == Head(completed_text(text))

\* The new buffer of lines 460-470.
start_text(query, meta) ==
    << <<"Android Task:", query, "Android Subtask:", meta.subtask,
         "Android Subtask Instruction:", meta.subtask_info>>,
       <<meta.executor_plan>> >>

\* update_episodic_memory (lines 428-479): the returned buffer, the journal file,
\* and whether the unguarded open(path, "w") raised.
update_episodic_memory(file, loads, dir, query, meta, text, summary) ==
    IF meta.subtask_status \in {"Start", "Done"}
    THEN IF text # EmptyText
         THEN LET kb == merge_entry(load_journal(file, loads), subtask_key_of(text),
                                    summary)
              IN IF dir
                 THEN [raised |-> FALSE, file |-> dump_journal(dir, kb),
                       text |-> start_text(query, meta)]
                 ELSE [raised |-> TRUE, file |-> file, text |-> text]
         ELSE [raised |-> FALSE, file |-> file, text |-> start_text(query, meta)]
    ELSE [raised |-> FALSE, file |-> file, text |-> Append(text, <<meta.executor_plan>>)]

\* Two episodes (two agents on one local_kb_path) that update the journals.
Episodes == {1, 2}
Journals == {"narrative", "episodic"}
IdleEpisode == [at |-> "idle", journal |-> "none", key |-> <<>>, summary |-> None, data |-> {}]

\* What the Planner's summary of an episode's own trajectory is.
EpisodeSummary(e) == IF e = 1 THEN "sumA" ELSE "sumB"

\* The keys an update can carry: the search query, or the head of a trajectory.
JournalKeys(j) ==
    IF j = "narrative" THEN {<<q>> : q \in Queries}
    ELSE {start_text(q, m)[1] : q \in Queries, m \in MetaData}

\* ------------------------------------------------------------------ history
\* What the claims say about an action, read off its text directly.
FailureMarked(acts) == \E i \in 1..Len(acts) : \E j \in 1..Len(acts[i]) : acts[i][j] = "FAIL"

CompletionMarked(acts) ==
    \E i \in 1..Len(acts) :
        \/ \E j \in 1..Len(acts[i]) : acts[i][j] = "DONE"
        \/ /\ \E j \in 1..Len(acts[i]) : acts[i][j] = "goal_status"
           /\ \E j \in 1..Len(acts[i]) : acts[i][j] = "complete"


NoMeta == [subtask |-> None, subtask_info |-> None, subtask_status |-> "none",
           executor_plan |-> None]

NoArgs == [failed_subtask |-> None, completed_subtasks_list |-> <<>>,
           remaining_subtasks_list |-> <<>>]

HistInit ==
    [raised |-> FALSE,            \* the last predict call ended in an exception
     plannerInvoked |-> FALSE,    \* this call: the Planner was invoked
     popped |-> FALSE,            \* this call: a subtask was popped
     emptyReplan |-> FALSE,       \* this call: a replan returned the empty plan
     advEmpty |-> FALSE,          \* this call: Advance was evaluated on an empty queue
     collab |-> "none",           \* this call: the collaborator invoked last
     iterNo |-> 0,                \* this call: iteration number, counted up to 2
     execIter |-> 0,              \* this iteration: its number, once the Executor has run
     iterVerdictFail |-> FALSE,   \* this iteration: the verdict was failure
     iterMarkerFail |-> FALSE,    \* this iteration: the action had a failure marker
     iterSuccess |-> FALSE,       \* this iteration: completion or terminal DONE
     iterPlain |-> FALSE,         \* this iteration: verdict pass, action unmarked
     unparseable |-> FALSE,       \* this iteration: the Executor's reply did not parse
     actuationFail |-> FALSE,     \* this iteration: executing the parsed action raised
     verdictReply |-> <<>>,       \* the Verifier's reply that is being acted on
     curOutcome |-> "none",       \* how the last iteration on current_subtask ended
     curAppended |-> FALSE,       \* current_subtask was appended to completed_tasks since its pop
     plannerArgs |-> NoArgs,      \* what the Planner was given, until Advance has run
     firstPersisted |-> {},       \* <<journal, key, summary>>: the first summary persisted
     streakSub |-> None,          \* subtask of the current run of failed iterations
     streak |-> 0,                \* failed iterations in a row on it, up to MaxStreak
     failSub |-> None,            \* subtask of the current run of failure transitions
     failLen |-> 0,               \* len(completed_tasks) before that run
     failCount |-> 0,             \* length of that run, counted up to 2
     repopped |-> FALSE,          \* that subtask was popped again during the run
     prevPlain |-> FALSE,         \* the previous call returned from a plain iteration
     prevCur |-> None,            \* current_subtask at the previous return
     stage |-> "none",            \* progress after a suppressed failure-marked action
     plan |-> <<>>,               \* the plan installed by the last replan
     popIndex |-> 0,              \* pops since that replan
     snapCur |-> None,            \* at the last Executor invocation
     snapQueue |-> <<>>,
     snapCompleted |-> <<>>,
     execActions |-> <<>>,        \* what the Executor returned last
     memOp |-> "none",            \* the journal the last memory update was on
     memKey |-> <<>>,             \* its key
     memPresent |-> FALSE,        \* the key was in the persisted journal before it
     memPrev |-> None,            \* the summary the key had before it
     memOffered |-> None,         \* the summary the Planner gives for its trajectory
     memRaised |-> FALSE,         \* it raised
     memMeta |-> NoMeta,          \* last step, if update_episodic_memory: its meta_data
     narrativeRewritten |-> FALSE] \* a narrative update offered a new summary for a stored key

\* A failure transition on subtask sub, with completed_tasks of length n before it.
FailRun(h, sub, n) ==
    IF h.failCount >= 1 /\ h.failSub = sub
    THEN [h EXCEPT !.failCount = 2]
    ELSE [h EXCEPT !.failSub = sub, !.failLen = n, !.failCount = 1, !.repopped = FALSE]

\* An iteration on subtask sub ended: failed, or not. (An exception out of the
\* Executor is no transition of the Orchestrator and ends the run of failures.)
Streak(h, sub, failed) ==
    IF ~failed THEN [h EXCEPT !.streakSub = None, !.streak = 0]
    ELSE IF h.streakSub = sub THEN [h EXCEPT !.streak = Min(@ + 1, MaxStreak)]
    ELSE [h EXCEPT !.streakSub = sub, !.streak = 1]

\* A success transition ends the run.
EndRun(h) == [h EXCEPT !.failSub = None, !.failLen = 0, !.failCount = 0, !.repopped = FALSE]

\* ------------------------------------------------------------------ predict
Init ==
    /\ requires_replan = TRUE
    /\ needs_next_subtask = TRUE
    /\ step_count = 0
    /\ failure_subtask = None
    /\ should_send_action = FALSE
    /\ completed_tasks = <<>>
    /\ current_subtask = None
    /\ subtasks = <<>>
    /\ search_query = ""
    /\ subtask_status = "Start"
    /\ pc = "idle"
    /\ actions = <<>>
    /\ exec_code = <<>>
    /\ kb_dir = TRUE
    /\ narrative_file = NoFile
    /\ episodic_file = NoFile
    /\ subtask_trajectory = EmptyText
    /\ episodes = [e \in Episodes |-> IdleEpisode]
    /\ ground = NoCall
    /\ worker = AndroidWorker(TRUE)
    /\ verifier = AndroidVerifierAgent
    /\ hist = HistInit

\* The caller invokes predict (lines 230-239).
PredictCall ==
    /\ pc = "idle"
    /\ step_count < MaxSteps
    /\ Len(completed_tasks) < MaxCompleted
    /\ pc' = "while"
    /\ actions' = <<>>
    /\ exec_code' = <<>>
    /\ hist' = [hist EXCEPT !.raised = FALSE, !.plannerInvoked = FALSE, !.popped = FALSE,
                            !.emptyReplan = FALSE, !.advEmpty = FALSE, !.collab = "none",
                            !.iterNo = 0, !.iterVerdictFail = FALSE,
                            !.iterMarkerFail = FALSE, !.iterSuccess = FALSE,
                            !.iterPlain = FALSE, !.unparseable = FALSE,
                            !.actuationFail = FALSE, !.execIter = 0,
                            !.stage = "none"]
    /\ UNCHANGED <<agentVars, memVars>>

\* while not self.should_send_action (lines 242-243): another iteration.
LoopEnter ==
    /\ pc = "while"
    /\ ~should_send_action
    /\ Len(completed_tasks) < MaxCompleted
    /\ subtask_status' = "In"
    /\ pc' = "replan"
    /\ hist' = [hist EXCEPT !.iterNo = Min(@ + 1, 2), !.iterVerdictFail = FALSE,
                            !.iterMarkerFail = FALSE, !.iterSuccess = FALSE,
                            !.iterPlain = FALSE, !.unparseable = FALSE,
                            !.actuationFail = FALSE, !.execIter = 0]
    /\ UNCHANGED <<requires_replan, needs_next_subtask, step_count, failure_subtask,
                   should_send_action, completed_tasks, current_subtask, subtasks,
                   search_query, actions, exec_code, memVars>>

\* The loop condition fails: on to line 368.
LoopExit ==
    /\ pc = "while"
    /\ should_send_action
    /\ pc' = "ret"
    /\ UNCHANGED <<agentVars, actions, exec_code, memVars, hist>>

\* if self.requires_replan: the Planner is invoked (lines 245-259).
Replan ==
    /\ pc = "replan"
    /\ requires_replan
    /\ \E plan \in PlannerOutputs, query \in Queries :
          /\ Assign(replan(Self, plan, query))
          /\ hist' = [hist EXCEPT !.plannerInvoked = TRUE, !.collab = "P",
                                  !.plannerArgs = planner_args(Self),
                                  !.emptyReplan = @ \/ plan = <<>>,
                                  !.plan = plan, !.popIndex = 0,
                                  !.stage = IF @ = "pending" THEN "replanned" ELSE @]
    /\ pc' = "advance"
    /\ UNCHANGED <<actions, exec_code, memVars>>

ReplanSkip ==
    /\ pc = "replan"
    /\ ~requires_replan
    /\ pc' = "advance"
    /\ UNCHANGED <<agentVars, actions, exec_code, memVars, hist>>

\* if self.needs_next_subtask, queue empty: terminal DONE and break (lines 262-283).
AdvanceDone ==
    /\ pc = "advance"
    /\ needs_next_subtask
    /\ queue_is_empty(subtasks)
    /\ Assign(advance_done(Self))
    /\ actions' = <<DoneAction>>
    /\ pc' = "ret"
    /\ hist' = [EndRun(hist) EXCEPT !.advEmpty = @ \/ subtasks = <<>>,
                                    !.curAppended = @ \/ current_subtask # None,
                                    !.streakSub = None, !.streak = 0,
                                    !.plannerArgs = NoArgs,
                                    !.iterSuccess = TRUE,
                                    !.stage = IF @ = "replanned" THEN "done" ELSE @]
    /\ UNCHANGED <<exec_code, memVars>>

\* if self.needs_next_subtask, queue not empty: pop the head (lines 285-288).
\* list.pop(0) on an empty list raises IndexError out of predict.
AdvancePop ==
    /\ pc = "advance"
    /\ needs_next_subtask
    /\ ~queue_is_empty(subtasks)
    /\ IF subtasks = <<>>
       THEN /\ pc' = "idle"
            /\ actions' = <<>>
            /\ hist' = [hist EXCEPT !.raised = TRUE, !.prevPlain = FALSE,
                                    !.advEmpty = TRUE]
            /\ UNCHANGED agentVars
       ELSE /\ Assign(advance_pop(Self))
            /\ pc' = "execute"
            /\ actions' = actions
            /\ hist' = [hist EXCEPT !.popped = TRUE, !.popIndex = @ + 1,
                                    !.repopped = @ \/ (hist.failCount >= 1
                                                       /\ Head(subtasks) = hist.failSub),
                                    !.curOutcome = "none",
                                    !.curAppended = FALSE,
                                    !.plannerArgs = NoArgs,
                                    !.stage = IF @ = "replanned" THEN "popped" ELSE @]
    /\ UNCHANGED <<exec_code, memVars>>

\* Mutant of AdvanceSkip: with no new subtask to start, the Executor is skipped.
AdvanceSkipsExecutor ==
    /\ pc = "advance"
    /\ ~needs_next_subtask
    /\ pc' = "verify"
    /\ UNCHANGED <<agentVars, actions, exec_code, memVars, hist>>

AdvanceSkip ==
    /\ pc = "advance"
    /\ ~needs_next_subtask
    /\ pc' = "execute"
    /\ UNCHANGED <<agentVars, actions, exec_code, memVars, hist>>

\* self.executor.generate_next_action(...); self.step_count += 1 (lines 290-301).
\* self.current_subtask.name on None raises AttributeError out of predict.
Execute ==
    /\ pc = "execute"
    /\ IF current_subtask = None
       THEN /\ pc' = "idle"
            /\ actions' = <<>>
            /\ exec_code' = <<>>
            /\ hist' = [hist EXCEPT !.raised = TRUE, !.prevPlain = FALSE]
            /\ UNCHANGED agentVars
       ELSE \E reply \in WorkerReplies, env \in EnvOutcomes :
              LET r == generate_next_action(reply, env)
                  h == [hist EXCEPT !.collab = "E",
                                    !.execIter = hist.iterNo,
                                    !.unparseable = ~reply.reason \/ reply.action.kind # "json",
                                    !.actuationFail = /\ reply.reason
                                                      /\ reply.action.kind = "json"
                                                      /\ reply.action.dict # EmptyDict
                                                      /\ env = "raises",
                                    !.snapCur = current_subtask,
                                    !.snapQueue = subtasks,
                                    !.snapCompleted = completed_tasks]
              IN IF r.raised
                 THEN /\ pc' = "idle"
                      /\ actions' = <<>>
                      /\ exec_code' = <<>>
                      /\ hist' = [h EXCEPT !.raised = TRUE, !.prevPlain = FALSE,
                                           !.streakSub = None, !.streak = 0]
                      /\ UNCHANGED agentVars
                 ELSE /\ pc' = "verify"
                      /\ actions' = r.actions
                      /\ exec_code' = r.exec_code
                      /\ hist' = [h EXCEPT !.execActions = r.actions]
                      /\ Assign([Self EXCEPT !.step_count = @ + 1])
    /\ UNCHANGED memVars

\* self.verifier.verify_execution(...) and the failed-verdict block (lines 303-331).
Verify ==
    /\ pc = "verify"
    /\ \E response \in VerifierReplies :
          LET is_success == parse_verification_response(response)
              h == [hist EXCEPT !.collab = "V", !.iterVerdictFail = ~is_success,
                                !.verdictReply = response]
          IN IF is_success
             THEN /\ hist' = h
                  /\ UNCHANGED agentVars
             ELSE /\ hist' = FailRun(h, current_subtask, Len(completed_tasks))
                  /\ Assign(verdict_failure(Self))
    /\ pc' = "classify"
    /\ UNCHANGED <<actions, exec_code, memVars>>

\* self.should_send_action = True and the outcome classification (lines 333-366).
Classify ==
    /\ pc = "classify"
    /\ Assign(classify(Self, actions))
    /\ pc' = "while"
    /\ LET fail == FailureMarked(actions)
           done == ~fail /\ CompletionMarked(actions)
           h == [hist EXCEPT !.iterMarkerFail = fail,
                             !.verdictReply = <<>>,
                             !.curOutcome = IF fail THEN "failure"
                                            ELSE IF done THEN "completion"
                                            ELSE IF hist.iterVerdictFail THEN "failure"
                                            ELSE "plain",
                             !.curAppended = @ \/ done,
                             !.iterSuccess = done,
                             !.iterPlain = ~hist.iterVerdictFail /\ ~fail /\ ~done,
                             !.stage = IF fail /\ subtasks # <<>> THEN "pending" ELSE @]
           g == Streak(h, current_subtask, fail \/ (hist.iterVerdictFail /\ ~done))
       IN hist' = IF fail THEN FailRun(g, current_subtask, Len(completed_tasks))
                  ELSE IF done THEN EndRun(g)
                  ELSE g
    /\ UNCHANGED <<actions, exec_code, memVars>>

\* Mutant of Return: the flag is left as the loop set it.
Return_keeps_flag ==
    /\ pc = "ret"
    /\ pc' = "idle"
    /\ actions' = <<>>
    /\ exec_code' = <<>>
    /\ hist' = [hist EXCEPT !.prevPlain = hist.iterPlain, !.prevCur = current_subtask]
    /\ UNCHANGED <<agentVars, memVars>>

\* self.should_send_action = False; return info, actions (lines 368-387).
Return ==
    /\ pc = "ret"
    /\ should_send_action' = FALSE
    /\ pc' = "idle"
    /\ actions' = <<>>
    /\ exec_code' = <<>>
    /\ hist' = [hist EXCEPT !.prevPlain = hist.iterPlain, !.prevCur = current_subtask]
    /\ UNCHANGED <<requires_replan, needs_next_subtask, step_count, failure_subtask,
                   completed_tasks, current_subtask, subtasks, search_query,
                   subtask_status, memVars>>

Next ==
    \/ PredictCall
    \/ LoopEnter
    \/ LoopExit
    \/ Replan
    \/ ReplanSkip
    \/ AdvanceDone
    \/ AdvancePop
    \/ AdvanceSkip
    \/ Execute
    \/ Verify
    \/ Classify
    \/ Return

Spec == Init /\ [][Next]_vars

\* predict is sequential code: a call that can take its next step takes it.
SpecLive == Init /\ [][Next]_vars /\ WF_vars(Next)

\* ------------------------------------------------------------------ memory updates
InitMem ==
    /\ requires_replan = TRUE
    /\ needs_next_subtask = TRUE
    /\ step_count = 0
    /\ failure_subtask = None
    /\ should_send_action = FALSE
    /\ completed_tasks = <<>>
    /\ current_subtask = None
    /\ subtasks = <<>>
    /\ search_query = ""
    /\ subtask_status = "Start"
    /\ pc = "idle"
    /\ actions = <<>>
    /\ exec_code = <<>>
    /\ kb_dir \in BOOLEAN
    /\ narrative_file = NoFile
    /\ episodic_file = NoFile
    /\ subtask_trajectory = EmptyText
    /\ episodes = [e \in Episodes |-> IdleEpisode]
    /\ ground = NoCall
    /\ worker = AndroidWorker(TRUE)
    /\ verifier = AndroidVerifierAgent
    /\ hist = HistInit

\* What a predict call leaves for the journals to read: the search query the
\* Planner returned (lines 256-259).
ReplanSearchQuery ==
    /\ pc = "idle"
    /\ \E query \in Queries : search_query' = query
    /\ hist' = [hist EXCEPT !.memMeta = NoMeta]
    /\ UNCHANGED <<requires_replan, needs_next_subtask, step_count, failure_subtask,
                   should_send_action, completed_tasks, current_subtask, subtasks,
                   subtask_status, callVars, memVars>>

UpdateNarrative ==
    /\ pc = "idle"
    /\ \E summary \in Summaries :
          /\ narrative_file' = update_narrative_memory(narrative_file, TRUE, kb_dir,
                                                       search_query, summary)
          /\ hist' = [hist EXCEPT
                 !.memOp = "narrative",
                 !.memKey = <<search_query>>,
                 !.memPresent = narrative_file.exists
                                    /\ HasKey(narrative_file.data, <<search_query>>),
                 !.memPrev = IF narrative_file.exists
                                    /\ HasKey(narrative_file.data, <<search_query>>)
                             THEN Lookup(narrative_file.data, <<search_query>>)
                             ELSE None,
                 !.memOffered = summary,
                 !.memRaised = FALSE,
                 !.memMeta = NoMeta,
                 !.narrativeRewritten =
                     @ \/ /\ narrative_file.exists
                          /\ HasKey(narrative_file.data, <<search_query>>)
                          /\ Lookup(narrative_file.data, <<search_query>>) # summary]
    /\ UNCHANGED <<agentVars, callVars, kb_dir, episodic_file, subtask_trajectory,
                   episodes, ground, worker, verifier>>

UpdateEpisodic ==
    /\ pc = "idle"
    /\ \E meta \in MetaData, summary \in Summaries :
          LET r == update_episodic_memory(episodic_file, TRUE, kb_dir, search_query, meta,
                                          subtask_trajectory, summary)
              flush == meta.subtask_status # "In" /\ subtask_trajectory # EmptyText
              key == subtask_key_of(subtask_trajectory)
              present == episodic_file.exists /\ HasKey(episodic_file.data, key)
          IN /\ meta.subtask_status = "In" => Len(subtask_trajectory) < MaxTrajectory
             /\ episodic_file' = r.file
             /\ subtask_trajectory' = r.text
             /\ hist' = [hist EXCEPT
                    !.memOp = IF flush THEN "episodic" ELSE "none",
                    !.memKey = IF flush THEN key ELSE <<>>,
                    !.memPresent = flush /\ present,
                    !.memPrev = IF flush /\ present THEN Lookup(episodic_file.data, key)
                                ELSE None,
                    !.memOffered = IF flush THEN summary ELSE None,
                    !.memRaised = r.raised,
                    !.memMeta = meta]
    /\ UNCHANGED <<agentVars, callVars, kb_dir, narrative_file, episodes, ground,
                   worker, verifier>>

NextMem ==
    \/ ReplanSearchQuery
    \/ UpdateNarrative
    \/ UpdateEpisodic

SpecMem == InitMem /\ [][NextMem]_vars

\* ------------------------------------------------------------------ journals that fail to load
\* update_narrative_memory when json.load(open(path)) raises on the file that is
\* there (not valid JSON, not readable): the bare except gives {} (lines 403-406).
UpdateNarrativeLoadFails ==
    /\ pc = "idle"
    /\ narrative_file.exists
    /\ \E summary \in Summaries :
          /\ narrative_file' = update_narrative_memory(narrative_file, FALSE, kb_dir,
                                                       search_query, summary)
          /\ hist' = [hist EXCEPT
                 !.memOp = "narrative",
                 !.memKey = <<search_query>>,
                 !.memPresent = HasKey(narrative_file.data, <<search_query>>),
                 !.memPrev = IF HasKey(narrative_file.data, <<search_query>>)
                             THEN Lookup(narrative_file.data, <<search_query>>)
                             ELSE None,
                 !.memOffered = summary,
                 !.memRaised = FALSE,
                 !.memMeta = NoMeta]
    /\ UNCHANGED <<agentVars, callVars, kb_dir, episodic_file, subtask_trajectory,
                   episodes, ground, worker, verifier>>

\* The flush of update_episodic_memory when the load raises (lines 439-445).
UpdateEpisodicLoadFails ==
    /\ pc = "idle"
    /\ episodic_file.exists
    /\ subtask_trajectory # EmptyText
    /\ \E meta \in MetaData, summary \in Summaries :
          LET r == update_episodic_memory(episodic_file, FALSE, kb_dir, search_query, meta,
                                          subtask_trajectory, summary)
              key == subtask_key_of(subtask_trajectory)
          IN /\ meta.subtask_status # "In"
             /\ episodic_file' = r.file
             /\ subtask_trajectory' = r.text
             /\ hist' = [hist EXCEPT
                    !.memOp = "episodic",
                    !.memKey = key,
                    !.memPresent = HasKey(episodic_file.data, key),
                    !.memPrev = IF HasKey(episodic_file.data, key)
                                THEN Lookup(episodic_file.data, key)
                                ELSE None,
                    !.memOffered = summary,
                    !.memRaised = r.raised,
                    !.memMeta = meta]
    /\ UNCHANGED <<agentVars, callVars, kb_dir, narrative_file, episodes, ground,
                   worker, verifier>>

NextMemFault ==
    \/ ReplanSearchQuery
    \/ UpdateNarrative
    \/ UpdateEpisodic
    \/ UpdateNarrativeLoadFails
    \/ UpdateEpisodicLoadFails

SpecMemFault == InitMem /\ [][NextMemFault]_vars

\* ------------------------------------------------------------------ concurrent episodes
\* Each update is three steps on the journal file, with no lock around them:
\* load (lines 403-406, 440-445), merge (408-410, 446-452), dump (412-413, 455-456).
JournalFile(j) == IF j = "narrative" THEN narrative_file ELSE episodic_file

EpisodeLoad(e) ==
    /\ episodes[e].at = "idle"
    /\ \E j \in Journals :
          \E k \in JournalKeys(j) :
             episodes' = [episodes EXCEPT ![e] =
                             [at |-> "loaded", journal |-> j, key |-> k,
                              summary |-> EpisodeSummary(e),
                              data |-> load_journal(JournalFile(j), TRUE)]]
    /\ UNCHANGED <<agentVars, callVars, kb_dir, narrative_file, episodic_file,
                   subtask_trajectory, ground, worker, verifier, hist>>

EpisodeMerge(e) ==
    /\ episodes[e].at = "loaded"
    /\ episodes' = [episodes EXCEPT ![e].at = "merged",
                                    ![e].data = merge_entry(@, episodes[e].key,
                                                            episodes[e].summary)]
    /\ UNCHANGED <<agentVars, callVars, kb_dir, narrative_file, episodic_file,
                   subtask_trajectory, ground, worker, verifier, hist>>

EpisodeDump(e) ==
    /\ episodes[e].at = "merged"
    /\ LET j == episodes[e].journal
           written == IF kb_dir THEN dump_journal(kb_dir, episodes[e].data)
                      ELSE JournalFile(j)
           known == {<<f[1], f[2]>> : f \in hist.firstPersisted}
       IN /\ narrative_file' = IF j = "narrative" THEN written ELSE narrative_file
          /\ episodic_file' = IF j = "episodic" THEN written ELSE episodic_file
          /\ hist' = [hist EXCEPT !.firstPersisted =
                          @ \cup {<<j, d[1], d[2]>> : d \in {x \in written.data :
                                                                <<j, x[1]>> \notin known}}]
    /\ episodes' = [episodes EXCEPT ![e] = IdleEpisode]
    /\ UNCHANGED <<agentVars, callVars, kb_dir, subtask_trajectory, ground,
                   worker, verifier>>

NextConc ==
    \E e \in Episodes :
        \/ EpisodeLoad(e)
        \/ EpisodeMerge(e)
        \/ EpisodeDump(e)

SpecConc == Init /\ [][NextConc]_vars

\* ------------------------------------------------------------------ Actuator calls
\* One of the three index actions is called on a screen with n elements.
GroundCall ==
    /\ ground.at \in {"idle", "returned"}
    /\ \E op \in IndexOps, index \in Indices, n \in ElementCounts, env \in ActuatorEnvs :
          ground' = [NoCall EXCEPT !.at = "called", !.op = op, !.index = index,
                                   !.n = n, !.env = env]
    /\ UNCHANGED <<agentVars, callVars, kb_dir, narrative_file, episodic_file,
                   subtask_trajectory, episodes, worker, verifier, hist>>

GroundReturn ==
    /\ ground.at = "called"
    /\ LET r == by_index(ground.op, ground.index, ground.n, ground.env)
       IN ground' = [ground EXCEPT !.at = "returned", !.result = r.result,
                                   !.executed = r.executed, !.raised = r.raised]
    /\ UNCHANGED <<agentVars, callVars, kb_dir, narrative_file, episodic_file,
                   subtask_trajectory, episodes, worker, verifier, hist>>

NextGround ==
    \/ GroundCall
    \/ GroundReturn

SpecGround == Init /\ [][NextGround]_vars

\* ------------------------------------------------------------------ scroll calls
\* scroll is called, with or without an element description, on a screen where
\* the described element is found or not.
ScrollCall ==
    /\ ground.at \in {"idle", "returned"}
    /\ \E direction \in Directions, described \in BOOLEAN, found \in BOOLEAN,
          element_index \in 0..(MaxElements - 1), env \in ActuatorEnvs :
          ground' = [at |-> "called", op |-> "scroll", direction |-> direction,
                     described |-> described, found |-> found,
                     element_index |-> element_index, env |-> env,
                     result |-> <<>>, executed |-> 0, raised |-> FALSE]
    /\ UNCHANGED <<agentVars, callVars, kb_dir, narrative_file, episodic_file,
                   subtask_trajectory, episodes, worker, verifier, hist>>

ScrollReturn ==
    /\ ground.at = "called"
    /\ LET r == scroll(ground.direction, ground.described, ground.found,
                       ground.element_index, ground.env)
       IN ground' = [ground EXCEPT !.at = "returned", !.result = r.result,
                                   !.executed = r.executed, !.raised = r.raised]
    /\ UNCHANGED <<agentVars, callVars, kb_dir, narrative_file, episodic_file,
                   subtask_trajectory, episodes, worker, verifier, hist>>

NextScroll ==
    \/ ScrollCall
    \/ ScrollReturn

SpecScroll == Init /\ [][NextScroll]_vars

\* ------------------------------------------------------------------ Executor calls
InitWorker ==
    /\ requires_replan = TRUE
    /\ needs_next_subtask = TRUE
    /\ step_count = 0
    /\ failure_subtask = None
    /\ should_send_action = FALSE
    /\ completed_tasks = <<>>
    /\ current_subtask = None
    /\ subtasks = <<>>
    /\ search_query = ""
    /\ subtask_status = "Start"
    /\ pc = "idle"
    /\ actions = <<>>
    /\ exec_code = <<>>
    /\ kb_dir = TRUE
    /\ narrative_file = NoFile
    /\ episodic_file = NoFile
    /\ subtask_trajectory = EmptyText
    /\ episodes = [e \in Episodes |-> IdleEpisode]
    /\ ground = NoCall
    /\ worker \in {AndroidWorker(b) : b \in BOOLEAN}
    /\ verifier = AndroidVerifierAgent
    /\ hist = HistInit

\* executor.reset(), from reset_executor_state.
WorkerReset ==
    /\ worker' = worker_reset(worker)
    /\ UNCHANGED <<agentVars, callVars, kb_dir, narrative_file, episodic_file,
                   subtask_trajectory, episodes, ground, verifier, hist>>

\* One generate_next_action call. After MaxVaried turns the oracle repeats itself;
\* what the device shows later matters only to a call that pauses.
WorkerCall ==
    /\ worker.turn_count < MaxTurns
    /\ \E obs \in Observations, device \in Observations, plan \in PlanTexts :
          /\ ~stability_pause(worker, obs) => device = obs
          /\ worker.turn_count >= MaxVaried =>
                 plan = worker.planner_history[Len(worker.planner_history)]
          /\ worker' = generate_next_action_context(worker, obs, device, plan)
    /\ UNCHANGED <<agentVars, callVars, kb_dir, narrative_file, episodic_file,
                   subtask_trajectory, episodes, ground, verifier, hist>>

NextWorker ==
    \/ WorkerReset
    \/ WorkerCall

SpecWorker == InitWorker /\ [][NextWorker]_vars

\* ------------------------------------------------------------------ Verifier calls
\* verifier.reset(), from reset_executor_state.
VerifierReset ==
    /\ verifier' = verifier_reset(verifier)
    /\ UNCHANGED <<agentVars, callVars, kb_dir, narrative_file, episodic_file,
                   subtask_trajectory, episodes, ground, worker, hist>>

\* One verify_execution call.
VerifierVerify ==
    /\ Len(verifier.verifier_engine) <= MaxPrompts
    /\ \E response \in VerifierReplies :
          verifier' = verify_execution(verifier, response)
    /\ UNCHANGED <<agentVars, callVars, kb_dir, narrative_file, episodic_file,
                   subtask_trajectory, episodes, ground, worker, hist>>

NextVerifier ==
    \/ VerifierReset
    \/ VerifierVerify

SpecVerifier == Init /\ [][NextVerifier]_vars

\* ------------------------------------------------------------------ step counter and Verifier log
\* The two blocks of predict that write step_count or the Verifier's log, each
\* taken whole, in any order predict may run them.
\* Lines 301-310: the Executor has returned, step_count += 1, verify_execution.
ExecutorStep ==
    /\ pc = "idle"
    /\ Len(verifier.verifier_engine) <= MaxPrompts
    /\ \E response \in VerifierReplies :
          verifier' = verify_execution(verifier, response)
    /\ Assign([Self EXCEPT !.step_count = @ + 1])
    /\ UNCHANGED <<callVars, kb_dir, narrative_file, episodic_file,
                   subtask_trajectory, episodes, ground, worker, hist>>

\* reset_executor_state (lines 214-218), called on the failure, completion and
\* DONE transitions: executor.reset(), verifier.reset(), step_count = 0.
ResetExecutorState ==
    /\ pc = "idle"
    /\ Assign(reset_executor_state(Self))
    /\ worker' = worker_reset(worker)
    /\ verifier' = verifier_reset(verifier)
    /\ UNCHANGED <<callVars, kb_dir, narrative_file, episodic_file,
                   subtask_trajectory, episodes, ground, hist>>

NextSteps ==
    \/ ExecutorStep
    \/ ResetExecutorState

SpecSteps == Init /\ [][NextSteps]_vars

\* ------------------------------------------------------------------ claims
\* The iteration of the loop has run to its end (line 366, or the break at 283).
IterationEnded == pc \in {"while", "ret"} /\ hist.iterNo >= 1

\* C1: when the verdict is failure and subtasks remain in the queue, the action is
\* not sent in this round: should_send_action is false at the end of the iteration.
C1_VerdictFailureSuppressed ==
    (pc = "while" /\ hist.iterVerdictFail /\ subtasks # <<>>) => ~should_send_action

\* C2: after an iteration that took a success transition failure_subtask is None;
\* after an iteration that took a failure transition (failed verdict or failure
\* marker) failure_subtask is current_subtask and not None.
C2_FailurePointerAfterIteration ==
    IterationEnded =>
        /\ hist.iterSuccess => failure_subtask = None
        /\ (hist.iterVerdictFail \/ hist.iterMarkerFail) =>
               failure_subtask # None /\ failure_subtask = current_subtask

\* C3: predict returns ["DONE"] exactly when Advance was evaluated on an empty
\* queue; otherwise it returns what the Executor returned, never ["DONE"].
C3_DoneIffAdvanceEmpty ==
    pc = "ret" =>
        /\ (actions = <<DoneAction>>) <=> hist.advEmpty
        /\ ~hist.advEmpty => actions = hist.execActions /\ hist.collab = "V"

C3_Witness ==
    pc = "ret" /\ hist.advEmpty /\ actions = <<DoneAction>> /\ completed_tasks # <<>>

\* C4: Advance removes the head of the queue: the k-th pop after a replan makes the
\* k-th subtask of the installed plan current, and the queue is the rest of the plan.
C4_Fifo ==
    /\ hist.popIndex <= Len(hist.plan)
    /\ subtasks = SubSeq(hist.plan, hist.popIndex + 1, Len(hist.plan))
    /\ hist.popIndex >= 1 => current_subtask = hist.plan[hist.popIndex]

C4_Witness ==
    pc = "execute" /\ hist.popIndex = 1 /\ Len(hist.plan) = 2
        /\ current_subtask = hist.plan[1] /\ subtasks = <<hist.plan[2]>>

\* C5: after two consecutive failure transitions on the same subtask with no
\* success transition in between, completed_tasks is as long as before the first
\* of them and failure_subtask is that subtask.
C5_RepeatedFailure ==
    hist.failCount = 2 =>
        /\ Len(completed_tasks) = hist.failLen
        /\ failure_subtask = hist.failSub
        /\ failure_subtask # None

C5_Witness ==
    hist.failCount = 2 /\ hist.repopped /\ pc = "while" /\ completed_tasks # <<>>

\* What reading the persisted journal gives for key k (None when there is no entry).
ReadBack(file, k) == IF file.exists /\ HasKey(file.data, k) THEN Lookup(file.data, k) ELSE None

LastJournal == IF hist.memOp = "narrative" THEN narrative_file ELSE episodic_file

\* C6: in both journals an update whose key is already in the persisted journal
\* leaves the key's summary as it was: after writing A then B under one key,
\* reading the key gives A.
C6_FirstSummaryWins ==
    (hist.memOp # "none" /\ hist.memPresent) =>
        /\ ReadBack(LastJournal, hist.memKey) = hist.memPrev
        /\ hist.memPrev # None
        /\ Cardinality({e \in LastJournal.data : e[1] = hist.memKey}) = 1

C6_Witness ==
    /\ hist.memOp = "episodic" /\ hist.memPresent
    /\ hist.memPrev = "sumA" /\ hist.memOffered = "sumB"
    /\ ReadBack(episodic_file, hist.memKey) = "sumA"
    /\ hist.narrativeRewritten

\* C7: a passed verdict on an unmarked action returns that action, leaves
\* current_subtask, the queue and completed_tasks as they were and both flags
\* false; the next call goes to the Executor for the same subtask with no Planner
\* invocation and no pop.
C7_PlainActionContinues ==
    /\ (hist.iterPlain /\ pc = "while") => should_send_action
    /\ (hist.iterPlain /\ pc \in {"while", "ret"}) =>
           /\ actions = hist.execActions
           /\ actions # <<DoneAction>>
           /\ current_subtask = hist.snapCur
           /\ subtasks = hist.snapQueue
           /\ completed_tasks = hist.snapCompleted
           /\ ~requires_replan
           /\ ~needs_next_subtask
    /\ (hist.prevPlain /\ (\/ pc = "idle"
                           \/ pc = "while" /\ hist.iterNo = 0
                           \/ pc = "replan" /\ hist.iterNo = 1)) =>
           ~requires_replan /\ ~needs_next_subtask
    /\ (hist.prevPlain /\ hist.iterNo = 1 /\ pc \in {"advance", "execute", "verify"}) =>
           /\ ~hist.plannerInvoked
           /\ ~hist.popped
           /\ ~hist.raised
           /\ ~needs_next_subtask
           /\ current_subtask = hist.prevCur
    /\ (hist.prevPlain /\ hist.iterNo = 1) => pc # "ret" \/ hist.collab = "V"

C7_Witness ==
    hist.prevPlain /\ hist.iterNo = 1 /\ pc = "verify" /\ hist.collab = "E"
        /\ current_subtask = hist.prevCur

\* C8 as stated: a failure-marked action with subtasks queued is not sent; both
\* flags are set, and before predict returns it has replanned and popped the next
\* subtask.
C8_FailureMarkerAdvancesToNext ==
    /\ (pc = "while" /\ hist.iterMarkerFail /\ subtasks # <<>>) =>
           requires_replan /\ needs_next_subtask /\ ~should_send_action
    /\ pc = "ret" => hist.stage \in {"none", "popped"}

\* C8 as amended: ... before predict returns it has replanned and evaluated
\* Advance, which popped the next subtask or, the new plan being empty, ended the
\* call with the terminal DONE.
C8_FailureMarkerReplansAndAdvances ==
    /\ (pc = "while" /\ hist.iterMarkerFail /\ subtasks # <<>>) =>
           requires_replan /\ needs_next_subtask /\ ~should_send_action
    /\ pc = "ret" =>
           \/ hist.stage \in {"none", "popped"}
           \/ hist.stage = "done" /\ actions = <<DoneAction>> /\ hist.emptyReplan

C8_Witness ==
    pc = "ret" /\ hist.stage = "popped" /\ hist.iterNo = 2 /\ actions # <<DoneAction>>

\* C9: after a replan that returned the empty plan predict returns ["DONE"] with
\* status "Done", without raising and without invoking the Executor or the
\* Verifier after that replan.
C9_EmptyPlanIsDone ==
    hist.emptyReplan =>
        /\ pc \in {"advance", "ret", "idle"}
        /\ hist.collab = "P"
        /\ ~hist.raised
        /\ pc \in {"ret", "idle"} => subtask_status = "Done"
        /\ pc = "ret" => actions = <<DoneAction>>

C9_Witness ==
    hist.emptyReplan /\ pc = "ret" /\ actions = <<DoneAction>>
        /\ completed_tasks # <<>> /\ subtask_status = "Done"

\* C10: when the Executor's reply does not parse into a reason and a structured
\* action, generate_next_action does not raise and returns a wait action that
\* carries no failure marker.
WaitAction == <<"{", "action_type", "wait", "}">>

C10_UnparseableReplyWaits ==
    hist.unparseable =>
        /\ ~hist.raised
        /\ pc = "verify" =>
               actions \in {<<WaitAction>>, <<WaitResult>>} /\ ~FailureMarked(actions)

\* C11: when executing the parsed action on the environment raises, the action that
\* generate_next_action returns carries a failure marker, and the Orchestrator sets
\* requires_replan in that iteration.
C11_ActuationFailureMarked ==
    hist.actuationFail =>
        /\ pc \in {"verify", "classify"} => FailureMarked(actions)
        /\ pc = "while" => requires_replan

\* The reply says FAIL / PASS in some letter case.
SaysFail(response) ==
    \E i \in 1..Len(response) :
        response[i] \in {"VERIFICATION_RESULT: FAIL", "Verification_Result: Fail"}

SaysPass(response) ==
    \E i \in 1..Len(response) :
        response[i] \in {"VERIFICATION_RESULT: PASS", "verification_result: pass"}

\* C12: _parse_verification_response does not raise; it returns is_success = false
\* exactly when the upper-cased reply contains "VERIFICATION_RESULT: FAIL" and not
\* "VERIFICATION_RESULT: PASS"; every other reply gives is_success = true.
C12_VerdictParse ==
    pc = "classify" =>
        /\ ~hist.raised
        /\ hist.iterVerdictFail <=>
               (SaysFail(hist.verdictReply) /\ ~SaysPass(hist.verdictReply))

C12_Witness ==
    /\ pc = "classify"
    /\ hist.verdictReply = <<"Verification_Result: Fail", "REASONING: ...">>
    /\ hist.iterVerdictFail
    /\ failure_subtask = current_subtask
    /\ current_subtask # None

InQueue(x) == \E i \in 1..Len(subtasks) : subtasks[i] = x

\* C13 as stated: in every reachable state there is at most one current subtask and
\* the queue does not contain it.
C13_QueueExcludesCurrent ==
    /\ current_subtask \in Subtasks \cup {None}
    /\ ~InQueue(current_subtask)

\* C13 as amended: ... the queue does not contain the current subtask, except
\* between a replan and the Advance that follows it in the same predict call, where
\* the new queue may contain the subtask that is still current.
C13_QueueExcludesCurrentOutsideReplan ==
    /\ current_subtask \in Subtasks \cup {None}
    /\ ~(pc = "advance" /\ needs_next_subtask) => ~InQueue(current_subtask)

C13_Witness ==
    /\ pc = "execute" /\ hist.plan = <<"B", "A">> /\ hist.snapCur = "A"
    /\ current_subtask = "B" /\ subtasks = <<"A">>

\* C14: every subtask in completed_tasks finished successfully: a subtask is
\* appended only if an Executor action for it carried a completion marker, and never
\* when its last transition was a failure.
C14_CompletedWereMarked ==
    /\ (pc = "while" /\ hist.iterSuccess) => hist.curOutcome = "completion"
    /\ (pc = "ret" /\ hist.advEmpty /\ current_subtask # None) =>
           /\ completed_tasks # <<>>
           /\ completed_tasks[Len(completed_tasks)] = current_subtask
           /\ hist.curOutcome = "completion"

IsPrefix(a, b) == Len(a) <= Len(b) /\ SubSeq(b, 1, Len(a)) = a

\* C15: completed_tasks is append-only: in every step the list before is a prefix
\* of the list after, so the list at an earlier point is a prefix of the list at
\* every later point; and every Planner invocation is given the current list.
C15_AppendOnly ==
    [][/\ IsPrefix(completed_tasks, completed_tasks')
       /\ (pc = "replan" /\ requires_replan) =>
              hist'.plannerArgs.completed_subtasks_list = completed_tasks]_vars

C15_Witness ==
    /\ pc = "advance" /\ hist.collab = "P"
    /\ hist.plannerArgs.completed_subtasks_list = completed_tasks
    /\ completed_tasks # <<>>

\* The replan that follows a failure transition is given the failed subtask.
C16_ReplanGetsFailedSubtask ==
    (pc = "advance" /\ hist.collab = "P" /\ hist.failCount >= 1) =>
        /\ hist.plannerArgs.failed_subtask = hist.failSub
        /\ hist.failSub # None

\* C16: after a failure transition the replan that follows is given the failed
\* subtask as failed_subtask, and once that replan has returned a plan
\* failure_subtask is None: it is not set while the next subtask executes.
C16_FailurePointerClearedByReplan ==
    /\ C16_ReplanGetsFailedSubtask
    /\ (hist.plannerInvoked /\ hist.collab \in {"P", "E"}
           /\ pc \in {"advance", "execute", "verify"}) => failure_subtask = None

C18_ConcurrentFirstSummaryWins ==
    (\A e \in Episodes : episodes[e].at = "idle") =>
        \A f \in hist.firstPersisted : ReadBack(JournalFile(f[1]), f[2]) = f[3]

\* C19: the three index actions, called with index < 0 or index >= the number of UI
\* elements, return a result that begins with "FAIL:", do not invoke
\* env.execute_action and do not raise; with an index in range they invoke it
\* exactly once and return a "SUCCESS:" result, and an exception from the
\* environment becomes a "FAIL:" result.
C19_IndexActions ==
    ground.at = "returned" =>
        LET inRange == 0 <= ground.index /\ ground.index + 1 <= ground.n
            prefix == SubSeq(ground.result, 1, 2)
        IN /\ ~ground.raised
           /\ ~inRange => prefix = <<"FAIL", ":">> /\ ground.executed = 0
           /\ (inRange /\ ground.env = "ok") =>
                  prefix = <<"SUCCESS", ":">> /\ ground.executed = 1
           /\ (inRange /\ ground.env = "execute_action_raises") =>
                  prefix = <<"FAIL", ":">> /\ ground.executed = 1
           /\ ground.env = "get_state_raises" =>
                  prefix = <<"FAIL", ":">> /\ ground.executed = 0

C19_Witness ==
    /\ ground.at = "returned" /\ ground.op = "type_by_index"
    /\ ground.index = ground.n /\ ground.n = MaxElements /\ ground.env = "ok"
    /\ ground.result[1] = "FAIL" /\ ground.executed = 0

\* C20: there is no retry budget: every failed iteration sets both flags, so that
\* the next Executor call comes after a replan, however many times in a row the
\* subtask has failed; and DONE is emitted only when the Planner has returned the
\* empty plan, never because of the failures themselves.
C20_NoRetryBudget ==
    /\ (pc = "while" /\ (hist.iterVerdictFail \/ hist.iterMarkerFail)) =>
           requires_replan /\ needs_next_subtask
    /\ (hist.streak >= 1 /\ pc \in {"idle", "while", "replan"}) => requires_replan
    /\ (hist.streak >= 1 /\ pc = "execute") => hist.collab = "P" /\ ~hist.raised
    /\ (pc = "ret" /\ actions = <<DoneAction>>) => hist.emptyReplan

\* The Planner re-emitted the subtask after it had failed MaxStreak times in a row,
\* and the Orchestrator is about to run it again.
C20_Witness ==
    /\ hist.streak = MaxStreak /\ pc = "execute"
    /\ current_subtask = hist.streakSub /\ hist.collab = "P"
    /\ completed_tasks = <<>>

\* C21: a replan happens exactly when requires_replan is true at the top of an
\* iteration: the Planner is given the current failure_subtask, completed_tasks
\* and queue, the queue becomes the returned sequence and requires_replan is
\* cleared; otherwise the Planner is not invoked and the queue is left as it was.
C21_ReplanStep ==
    [][pc = "replan" =>
          IF requires_replan
          THEN /\ hist'.collab = "P"
               /\ hist'.plannerArgs = [failed_subtask |-> failure_subtask,
                                       completed_subtasks_list |-> completed_tasks,
                                       remaining_subtasks_list |-> subtasks]
               /\ subtasks' = hist'.plan
               /\ ~requires_replan'
          ELSE /\ hist'.collab = hist.collab
               /\ hist'.plannerArgs = hist.plannerArgs
               /\ hist'.plan = hist.plan
               /\ subtasks' = subtasks
               /\ ~requires_replan']_vars

\* A replan has dropped an entry of the old queue that the Planner did not return.
C21_Witness ==
    /\ pc = "advance" /\ hist.collab = "P"
    /\ hist.plannerArgs.remaining_subtasks_list = <<"B">>
    /\ subtasks = <<"A">>
    /\ hist.plannerArgs.failed_subtask = "A"

\* C22: when Advance finds the queue empty, current_subtask is moved to the
\* completed list (appended, and no longer current), failure_subtask is None, the
\* step counter is reset, and predict leaves its loop returning DONE.
C22_AdvanceEmptyMovesCurrent ==
    (pc = "ret" /\ hist.advEmpty) =>
        /\ actions = <<DoneAction>>
        /\ failure_subtask = None
        /\ step_count = 0
        /\ current_subtask = None
        /\ \A i \in 1..Len(completed_tasks), j \in 1..Len(completed_tasks) :
               completed_tasks[i] = completed_tasks[j] => i = j

\* C23: the collaborators are invoked in sequence: in an iteration the Planner
\* (if at all) comes before the Executor, and the Verifier is invoked once, right
\* after the Executor invocation of the same iteration and for the same subtask,
\* never without it.
C23_CollaboratorOrder ==
    /\ pc \in {"advance", "execute"} => hist.collab \in {"P", "none"}
    /\ pc = "verify" =>
           /\ hist.collab = "E"
           /\ hist.execIter = hist.iterNo
           /\ hist.snapCur = current_subtask
    /\ pc = "classify" => hist.collab = "V" /\ hist.execIter = hist.iterNo
    /\ (hist.collab = "E" /\ ~hist.raised) => pc = "verify"
    /\ hist.collab = "V" => pc \in {"classify", "while", "replan", "ret", "idle"}

C23_Witness ==
    /\ pc = "classify" /\ hist.collab = "V" /\ hist.iterNo = 2
    /\ hist.plannerInvoked /\ hist.execIter = 2

\* C24: should_send_action is false whenever no predict call is running and when
\* a call enters its loop, so every call runs at least one iteration; a call
\* reaches its return statement only after an iteration of that call set the flag.
C24_SendFlagPerCall ==
    /\ pc = "idle" => ~should_send_action
    /\ (pc = "while" /\ hist.iterNo = 0) => ~should_send_action
    /\ pc = "ret" => should_send_action /\ hist.iterNo >= 1 /\ actions # <<>>

C24_Witness ==
    /\ pc = "ret" /\ should_send_action /\ hist.iterNo = 2
    /\ actions = <<ClickAction>> /\ hist.plannerInvoked

\* C25: between generate_next_action calls the generator conversation holds at
\* most 2*max_trajector_length+1 messages and the reflection conversation at most
\* max_trajector_length+1; each holds the system prompt at index 0 followed by
\* the most recent turns in order, so the oldest turn is the one evicted.
C25_BoundedConversations ==
    LET k == Min(worker.turn_count, max_trajector_length)
        first == worker.turn_count - k
    IN /\ Len(worker.generator) <= 2 * max_trajector_length + 1
       /\ Len(worker.reflection) <= max_trajector_length + 1
       /\ worker.generator[1] = SystemMessage
       /\ worker.reflection[1] = SystemMessage
       /\ Len(worker.generator) = 2 * k + 1
       /\ \A i \in 1..k : /\ worker.generator[2 * i] = <<"user", first + i - 1>>
                          /\ worker.generator[2 * i + 1] = <<"assistant", first + i - 1>>
       /\ worker.enable_reflection =>
              /\ Len(worker.reflection) = k + 1
              /\ \A i \in 1..k : worker.reflection[i + 1] = <<"user", first + i - 1>>

C25_Witness ==
    /\ worker.turn_count = 10 /\ worker.enable_reflection
    /\ Len(worker.generator) = 17 /\ worker.generator[2] = <<"user", 2>>
    /\ Len(worker.reflection) = 9 /\ worker.reflection[2] = <<"user", 2>>

\* C26: a call surfaces the repetition hint exactly when it is not the first
\* call since reset() and two of the (up to) three plans before it are the same;
\* reset() leaves no plan in the history.
C26_RepetitionHint ==
    /\ Len(worker.planner_history) = worker.turn_count
    /\ worker.turn_count = 0 => ~worker.out.hint
    /\ worker.out.called =>
           LET n == worker.turn_count - 1
               window == {i \in 1..n : i > n - 3}
           IN worker.out.hint <=>
                  /\ n > 0
                  /\ \E i, j \in window :
                         i # j /\ worker.planner_history[i] = worker.planner_history[j]

C26_Witness ==
    /\ worker.turn_count = 5 /\ worker.out.called /\ ~worker.out.hint
    /\ worker.planner_history[1] = worker.planner_history[4]

\* C27: a call that paused because it saw no screen change reports
\* screen_changed when the screen after the pause differs from the observation
\* the call was given; the first call after reset() does not pause.
C27_ResampleReportsChange ==
    /\ (worker.out.called /\ worker.turn_count = 1) => ~worker.out.paused
    /\ (worker.out.paused /\ worker.out.device_changed) => worker.out.screen_changed

\* C28: the record a verify_execution call appends carries the verdict the call
\* returned, and the call leaves behind nothing but that record that a later
\* verdict depends on: the oracle is asked about the present prompt alone, with
\* no prompt of an earlier call in its conversation.
C28_VerifierKeepsOnlyHistory ==
    verifier.out.called =>
        /\ verifier.verification_history # <<>> =>
               verifier.verification_history[Len(verifier.verification_history)].is_success
                   = verifier.out.is_success
        /\ verifier.out.earlier_prompts = 0

\* C29: update_episodic_memory with status Start or Done and a non-empty buffer
\* stores the buffer in the episodic journal under its header and returns a fresh
\* buffer of the new header and the current plan (with an empty buffer it only
\* returns the fresh one); with status In it writes nothing and returns the old
\* buffer extended by the current plan.
C29_EpisodicBuffer ==
    [][hist'.memMeta # NoMeta =>
          LET meta == hist'.memMeta
          IN IF meta.subtask_status \in {"Start", "Done"}
             THEN /\ subtask_trajectory # EmptyText =>
                         /\ episodic_file'.exists
                         /\ HasKey(episodic_file'.data, subtask_trajectory[1])
                  /\ subtask_trajectory = EmptyText => episodic_file' = episodic_file
                  /\ subtask_trajectory' =
                         << <<"Android Task:", search_query,
                              "Android Subtask:", meta.subtask,
                              "Android Subtask Instruction:", meta.subtask_info>>,
                            <<meta.executor_plan>> >>
             ELSE /\ episodic_file' = episodic_file
                  /\ subtask_trajectory' = Append(subtask_trajectory, <<meta.executor_plan>>)
    ]_vars

JournalKept(old, new) ==
    /\ old.exists => new.exists /\ old.data \subseteq new.data
    /\ Cardinality(new.data \ old.data) <= 1

\* C30: every memory update, whatever the load of the existing journal gave,
\* leaves every key that was persisted before it in the journal with the same
\* summary, and adds at most one key.
C30_UpdatePreservesJournal ==
    [][/\ JournalKept(narrative_file, narrative_file')
       /\ JournalKept(episodic_file, episodic_file')]_vars

\* C31: at the top of every iteration requires_replan equals needs_next_subtask;
\* so a subtask is taken from the queue only right after a Replan of the same
\* iteration, and the subtask that becomes current is the first element of the
\* plan that Replan returned.
C31_ReplanAndAdvanceTogether ==
    /\ pc = "replan" => (requires_replan <=> needs_next_subtask)
    /\ (pc = "advance" /\ needs_next_subtask) => hist.collab = "P" /\ subtasks = hist.plan
    /\ (pc = "execute" /\ hist.collab = "P") =>
           /\ hist.popIndex = 1
           /\ hist.plan # <<>>
           /\ current_subtask = hist.plan[1]
           /\ subtasks = Tail(hist.plan)
    /\ (pc = "execute" /\ hist.collab # "P") => hist.collab = "none" /\ ~hist.popped

C31_Witness ==
    /\ pc = "execute" /\ hist.popIndex = 1 /\ hist.iterNo = 2
    /\ hist.plan = <<"B", "A">> /\ current_subtask = "B" /\ completed_tasks = <<"A">>

\* C32: every predict call terminates: once a call has entered its loop it comes
\* back to the caller (or, in the model, completed_tasks reaches the length at
\* which no new iteration is started).
C32_PredictTerminates ==
    (pc = "while") ~> (pc = "idle" \/ Len(completed_tasks) >= MaxCompleted)

\* C33: no subtask is appended to completed_tasks more than once: a step appends
\* current_subtask only if it has not been appended since it was popped.
C33_CompletedOncePerPop ==
    [][Len(completed_tasks') > Len(completed_tasks) => ~hist.curAppended]_vars

\* C34: the subtask_status a predict call returns is Start, In or Done, and it is
\* In only when no subtask became current during the call and current_subtask is
\* the one that was current at the previous return.
C34_StatusInMeansSameSubtask ==
    pc = "ret" =>
        /\ subtask_status \in {"Start", "In", "Done"}
        /\ subtask_status = "In" => ~hist.popped /\ current_subtask = hist.prevCur

\* C35: the length of the Verifier's verification_history equals step_count
\* whenever predict is not in the middle of its Executor-and-Verifier block.
C35_HistoryLengthIsStepCount ==
    Len(verifier.verification_history) = step_count

C35_Witness ==
    /\ step_count = 2 /\ Len(verifier.verification_history) = 2
    /\ Len(verifier.verifier_engine) = 5
    /\ ~verifier.verification_history[1].is_success

\* C36: an action list that carries both a failure marker and a completion
\* marker takes the failure transition only: current_subtask is not appended to
\* completed_tasks, failure_subtask is current_subtask, the status is not Done.
C36_FailureMarkerFirst ==
    (pc = "while" /\ hist.iterNo >= 1 /\ FailureMarked(actions) /\ CompletionMarked(actions)) =>
        /\ completed_tasks = hist.snapCompleted
        /\ failure_subtask = current_subtask
        /\ requires_replan /\ needs_next_subtask
        /\ step_count = 0
        /\ subtask_status # "Done"

C36_Witness ==
    /\ pc = "while" /\ hist.iterNo >= 1 /\ actions = <<TypeFailDone>>
    /\ failure_subtask = "B" /\ completed_tasks = <<"A">> /\ ~should_send_action

\* C37: the Executor is invoked only with a current subtask, which an Advance
\* popped from the queue; current_subtask changes in no other step, and an Advance
\* pops only after a failure, completion or DONE transition (or the reset) has
\* asked for the next subtask.
C37_ExecutorHasCurrentSubtask ==
    [][/\ pc' = "execute" => current_subtask' # None
       /\ current_subtask' # current_subtask =>
              /\ pc = "advance" /\ needs_next_subtask
              /\ subtasks # <<>>
              /\ current_subtask' = Head(subtasks)
       /\ (~needs_next_subtask /\ needs_next_subtask') =>
              \/ hist'.iterVerdictFail
              \/ hist'.iterMarkerFail
              \/ hist'.iterSuccess
    ]_vars

C37_Witness ==
    /\ pc = "execute" /\ ~hist.popped /\ hist.iterNo = 1 /\ hist.prevPlain
    /\ current_subtask = "B" /\ completed_tasks = <<"A">>

\* C38: on the first generate_next_action call after reset() the reported
\* screen_changed depends on that call's observation only: it is what a newly
\* constructed worker reports for the same observation.
C38_ResetForgetsObservations ==
    (worker.out.called /\ worker.turn_count = 1) =>
        LET obs == [current_activity |-> worker.previous_activity,
                    ui_elements |-> worker.previous_ui_elements]
        IN worker.out.screen_changed =
               screen_changed_of(AndroidWorker(worker.enable_reflection), obs, obs)

\* C39: scroll returns a SUCCESS result only after it has submitted the scroll
\* action to the environment exactly once, on the whole screen and on a described
\* element alike; when the described element is not found it returns FAIL and
\* submits nothing.
C39_ScrollSubmitsOnce ==
    ground.at = "returned" =>
        /\ ~ground.raised
        /\ ground.result[1] = "SUCCESS" => ground.executed = 1
        /\ (ground.described /\ ~ground.found /\ ground.env = "ok") =>
               ground.result[1] = "FAIL" /\ ground.executed = 0

====
